---- MODULE Spec2Model ----
(***************************************************************************)
(* Line-art conversion pipeline of the colouring-book application          *)
(* (src/lib/lineArt.ts): resize, grayscale, box blur, Sobel edge           *)
(* detection, thresholding and dilation over RGBA pixel buffers.           *)
(*                                                                         *)
(* JavaScript numbers are IEEE-754 binary64 values.  The arithmetic of the *)
(* pipeline that can round (maxDim / max(width, height), width * scale,    *)
(* the luma weights, sum / 9, Math.sqrt stored into a Float32Array,        *)
(* (threshold / 255) * maxMag) is modelled bit-exactly: a non-negative     *)
(* floating-point value is a record [m, e] standing for m * 2^e, where m   *)
(* is an arbitrary-precision natural number kept as a little-endian        *)
(* sequence of 15-bit limbs, and every operation rounds to nearest, ties   *)
(* to even, at the precision of its result type.                           *)
(***************************************************************************)
EXTENDS Integers, Sequences, FiniteSets, TLC

-----------------------------------------------------------------------------
(* Arbitrary-precision naturals                                            *)

LimbBits == 15
Base == 32768

RECURSIVE Pow2(_)
Pow2(k) == IF k = 0 THEN 1 ELSE 2 * Pow2(k - 1)

Max(a, b) == IF a > b THEN a ELSE b
Min(a, b) == IF a < b THEN a ELSE b

RECURSIVE BigFromNat(_)
BigFromNat(n) == IF n = 0 THEN <<>> ELSE <<n % Base>> \o BigFromNat(n \div Base)

RECURSIVE BigToNat(_)
BigToNat(a) == IF a = <<>> THEN 0 ELSE Head(a) + Base * BigToNat(Tail(a))

BigCons(d, a) == IF d = 0 /\ a = <<>> THEN <<>> ELSE <<d>> \o a

RECURSIVE BigAddC(_, _, _)
BigAddC(a, b, c) ==
    IF a = <<>> /\ b = <<>> THEN BigFromNat(c)
    ELSE LET x == IF a = <<>> THEN 0 ELSE Head(a)
             y == IF b = <<>> THEN 0 ELSE Head(b)
             s == x + y + c
         IN  <<s % Base>> \o BigAddC(IF a = <<>> THEN a ELSE Tail(a),
                                      IF b = <<>> THEN b ELSE Tail(b), s \div Base)

BigAdd(a, b) == BigAddC(a, b, 0)

RECURSIVE BigMulSmallC(_, _, _)
BigMulSmallC(a, s, c) ==
    IF a = <<>> THEN BigFromNat(c)
    ELSE LET p == Head(a) * s + c
         IN  BigCons(p % Base, BigMulSmallC(Tail(a), s, p \div Base))

BigMulSmall(a, s) == IF s = 0 THEN <<>> ELSE BigMulSmallC(a, s, 0)

RECURSIVE BigMul(_, _)
BigMul(a, b) ==
    IF a = <<>> \/ b = <<>> THEN <<>>
    ELSE BigAdd(BigMulSmall(a, Head(b)), BigCons(0, BigMul(a, Tail(b))))

\* quotient and remainder of a by a divisor d < Base
RECURSIVE BigDivRem(_, _)
BigDivRem(a, d) ==
    IF a = <<>> THEN [q |-> <<>>, r |-> 0]
    ELSE LET hi  == BigDivRem(Tail(a), d)
             cur == hi.r * Base + Head(a)
         IN  [q |-> BigCons(cur \div d, hi.q), r |-> cur % d]

RECURSIVE Zeros(_)
Zeros(n) == IF n = 0 THEN <<>> ELSE <<0>> \o Zeros(n - 1)

BigShl(a, k) == IF a = <<>> THEN <<>>
                ELSE Zeros(k \div LimbBits) \o BigMulSmall(a, Pow2(k % LimbBits))

BigShr(a, k) == IF k \div LimbBits >= Len(a) THEN <<>>
                ELSE BigDivRem(SubSeq(a, k \div LimbBits + 1, Len(a)), Pow2(k % LimbBits)).q

RECURSIVE NatBitLen(_)
NatBitLen(n) == IF n = 0 THEN 0 ELSE 1 + NatBitLen(n \div 2)

BigBitLen(a) == IF a = <<>> THEN 0 ELSE LimbBits * (Len(a) - 1) + NatBitLen(a[Len(a)])

RECURSIVE BigCmpFrom(_, _, _)
BigCmpFrom(a, b, k) == IF k = 0 THEN 0
                       ELSE IF a[k] < b[k] THEN -1
                       ELSE IF a[k] > b[k] THEN 1
                       ELSE BigCmpFrom(a, b, k - 1)

BigCmp(a, b) == IF Len(a) < Len(b) THEN -1
                ELSE IF Len(a) > Len(b) THEN 1
                ELSE BigCmpFrom(a, b, Len(a))

BigOdd(a) == a # <<>> /\ Head(a) % 2 = 1

-----------------------------------------------------------------------------
(* IEEE-754 arithmetic on non-negative values, round to nearest even       *)

F64Bits == 53
F32Bits == 24

FZero == [m |-> <<>>, e |-> 0]

\* the value X * 2^e rounded to p significant bits
RoundTo(X, e, p) ==
    LET L == BigBitLen(X) IN
    IF X = <<>> THEN FZero
    ELSE IF L <= p THEN [m |-> BigShl(X, p - L), e |-> e - (p - L)]
    ELSE LET drop   == L - p
             Y      == BigShr(X, drop - 1)
             q      == BigShr(Y, 1)
             sticky == BigShl(Y, drop - 1) # X
             up     == BigOdd(Y) /\ (sticky \/ BigOdd(q))
             q1     == IF up THEN BigAdd(q, <<1>>) ELSE q
         IN  IF BigBitLen(q1) > p THEN [m |-> BigShr(q1, 1), e |-> e + drop + 1]
             ELSE [m |-> q1, e |-> e + drop]

\* an integer as a Number
F64FromInt(n) == RoundTo(BigFromNat(n), 0, F64Bits)

\* p / q for integer-valued Numbers p >= 0, 0 < q < Base: the quotient is
\* carried to more than F64Bits + 2 bits plus a sticky bit, then rounded
F64DivInt(p, q) ==
    LET dr == BigDivRem(BigShl(BigFromNat(p), 70), q)
        X  == BigAdd(BigShl(dr.q, 1), IF dr.r = 0 THEN <<>> ELSE <<1>>)
    IN  RoundTo(X, -71, F64Bits)

F64Mul(a, b) == RoundTo(BigMul(a.m, b.m), a.e + b.e, F64Bits)

F64Add(a, b) ==
    IF a.m = <<>> THEN b
    ELSE IF b.m = <<>> THEN a
    ELSE LET e == Min(a.e, b.e)
         IN  RoundTo(BigAdd(BigShl(a.m, a.e - e), BigShl(b.m, b.e - e)), e, F64Bits)

\* Math.floor
F64Floor(a) == IF a.m = <<>> THEN 0
               ELSE IF a.e >= 0 THEN BigToNat(BigShl(a.m, a.e))
               ELSE BigToNat(BigShr(a.m, -a.e))

\* a > b
F64Gt(a, b) ==
    IF a.m = <<>> THEN FALSE
    ELSE IF b.m = <<>> THEN TRUE
    ELSE LET ea == a.e + BigBitLen(a.m)
             eb == b.e + BigBitLen(b.m)
             e  == Min(a.e, b.e)
         IN  IF ea # eb THEN ea > eb
             ELSE BigCmp(BigShl(a.m, a.e - e), BigShl(b.m, b.e - e)) = 1

\* floor square root of an integer below 2^24, one binary digit per step
RECURSIVE NatSqrtFrom(_, _, _)
NatSqrtFrom(n, root, bit) ==
    IF bit = 0 THEN root
    ELSE IF (root + bit) * (root + bit) <= n THEN NatSqrtFrom(n, root + bit, bit \div 2)
    ELSE NatSqrtFrom(n, root, bit \div 2)

NatSqrt(n) == NatSqrtFrom(n, 0, 2048)

\* binary digits of a square root, one per step: root = floor(sqrt(n * 4^k)),
\* rem = n * 4^k - root^2, until root has F32Bits + 2 bits
RECURSIVE SqrtDigits(_, _, _)
SqrtDigits(root, rem, k) ==
    IF root >= Pow2(F32Bits + 1) THEN [root |-> root, rem |-> rem, k |-> k]
    ELSE LET r4    == 4 * rem
             trial == 4 * root + 1
         IN  IF r4 >= trial THEN SqrtDigits(2 * root + 1, r4 - trial, k + 1)
             ELSE SqrtDigits(2 * root, r4, k + 1)

\* Math.sqrt(n) stored into a Float32Array, for an integer 0 <= n < 2^24.
\* Math.sqrt rounds to binary64 and the store rounds again to binary32; for
\* these arguments the binary64 root is never a binary32 rounding midpoint
\* (a midpoint has 25 significant bits, so its square is not an integer
\* below 2^24), hence the two roundings equal one rounding to F32Bits bits.
F32Sqrt(n) ==
    IF n = 0 THEN FZero
    ELSE LET r0 == NatSqrt(n)
             d  == SqrtDigits(r0, n - r0 * r0, 0)
             X  == BigFromNat(2 * d.root + (IF d.rem = 0 THEN 0 ELSE 1))
         IN  RoundTo(X, -(d.k + 1), F32Bits)

\* conversion of a Number to an element of a Uint8ClampedArray: round to the
\* nearest integer, ties to even, clamp to 0..255
ToUint8Clamped(a) ==
    IF a.m = <<>> THEN 0
    ELSE IF a.e >= 0
         THEN (IF BigBitLen(a.m) + a.e > 8 THEN 255 ELSE BigToNat(BigShl(a.m, a.e)))
    ELSE LET drop   == -a.e
             Y      == BigShr(a.m, drop - 1)
             q      == BigShr(Y, 1)
             sticky == BigShl(Y, drop - 1) # a.m
             up     == BigOdd(Y) /\ (sticky \/ BigOdd(q))
         IN  IF BigBitLen(q) > 8 THEN 255
             ELSE Min(255, BigToNat(q) + (IF up THEN 1 ELSE 0))

-----------------------------------------------------------------------------------------------------------------------------------------------------
(* Bounds of the model                                                     *)

\* the pixel pipeline: native sizes 1..MaxNaturalWidth x 1..MaxNaturalHeight
\* and one maxDim, the second largest width, so that images are converted
\* at their native size, scaled down, and scaled down to a zero height
MaxNaturalWidth == 5
MaxNaturalHeight == 3
\* the resizer taken alone: native sizes and maxDim values
MaxResizeNatural == 24
MaxResizeMaxDim == 16
\* option values
Thresholds == {0, 128, 255}
MaxBlurPasses == 1
MaxThickness == 1
\* canvas contents: a background colour and, in a second colour, nothing,
\* one pixel, one row or one column
Black == <<0, 0, 0, 255>>
White == <<255, 255, 255, 255>>
Tint == <<200, 100, 50, 128>>
ColourPairs == {<<White, Black>>, <<Tint, White>>}

-----
(* State                                                                   *)

VARIABLES
    pc,             \* position in convertToLineArt
    naturalWidth,   \* img.naturalWidth
    naturalHeight,  \* img.naturalHeight
    options,        \* the LineArtOptions argument
    width,          \* let width
    height,         \* let height
    canvas,         \* pixels of the offscreen canvas, RGBA row-major
    imageData,      \* imageData.data
    magnitude,      \* the Float32Array returned by sobelEdge
    output,         \* output.data
    i,              \* counter of the blur loop, then of the dilation loop
    result,         \* the image encoded by canvas.toDataURL
    source,         \* the pixels drawImage put on the canvas
    run,            \* 1 in the first conversion of an image, 2 in the second
    first,          \* the result of the first conversion
    snapshot,       \* src, the copy of the buffer taken by the pass under way
    visited         \* the pixels the pass under way has written

\* the state of one convertToLineArt call and of the call before it
pipelineVars == <<pc, naturalWidth, naturalHeight, options, width, height, canvas,
                  imageData, magnitude, output, i, result, source, run, first,
                  snapshot, visited>>

\* the locals of a boxBlur or dilate call
passVars == <<snapshot, visited>>

VARIABLES
    hpc,            \* position in handleConvert
    selectedFile,   \* useState selectedFile: null or a file
    qualityMode,    \* useState qualityMode
    apiAvailable,   \* useState apiAvailable: null, TRUE or FALSE
    probe,          \* the promise of checkAPIHealth
    lineArtSrc,     \* useState lineArtSrc: null or a data URL
    drawing,        \* the drawing canvas: "blank" or "drawn"
    isConverting,   \* useState isConverting
    alerts,         \* the messages shown by alert() in this request
    mode,           \* qualityMode and apiAvailable as the running handler sees them
    remoteCalls,    \* calls of convertWithAPI in this request
    localCalls,     \* calls of fileToLineArt in this request
    outcomes,       \* how the calls of this request ended, in order
    before,         \* lineArtSrc when the request started
    cleared,        \* handleClear was called in this request
    requests        \* requests started so far

handlerVars == <<hpc, selectedFile, qualityMode, apiAvailable, probe, lineArtSrc,
                 drawing, isConverting, alerts, mode, remoteCalls, localCalls,
                 outcomes, before, cleared, requests>>

VARIABLES
    ppc,            \* position in exportToPdf
    imageWidth,     \* pngImage.size().width
    imageHeight,    \* pngImage.size().height
    pageWidth,      \* let pageWidth
    pageHeight      \* let pageHeight

pdfVars == <<ppc, imageWidth, imageHeight, pageWidth, pageHeight>>

vars == <<pipelineVars, handlerVars, pdfVars>>

-----------------------------------------------------------------------------
(* The stages of the pipeline                                              *)

\* element k (0-based, as in the source) of a typed array
At(data, k) == data[k + 1]

\* the scaled dimensions with the scale taken from the smaller side
ScaledDimensionsBySmallerSide(w, h, maxDim) ==
    IF w > maxDim \/ h > maxDim
    THEN LET scale == F64DivInt(maxDim, Min(w, h))
         IN  [width  |-> F64Floor(F64Mul(F64FromInt(w), scale)),
              height |-> F64Floor(F64Mul(F64FromInt(h), scale))]
    ELSE [width |-> w, height |-> h]

\* the scaled dimensions without the test of line 189
ScaledDimensionsAlways(w, h, maxDim) ==
    LET scale == F64DivInt(maxDim, Max(w, h))
    IN  [width  |-> F64Floor(F64Mul(F64FromInt(w), scale)),
         height |-> F64Floor(F64Mul(F64FromInt(h), scale))]

\* lines 189-193: the scaled dimensions
ScaledDimensions(w, h, maxDim) ==
    IF w > maxDim \/ h > maxDim
    THEN LET scale == F64DivInt(maxDim, Max(w, h))
         IN  [width  |-> F64Floor(F64Mul(F64FromInt(w), scale)),
              height |-> F64Floor(F64Mul(F64FromInt(h), scale))]
    ELSE [width |-> w, height |-> h]

\* the literals 0.299, 0.587 and 0.114 as Numbers
LumaR == F64DivInt(299, 1000)
LumaG == F64DivInt(587, 1000)
LumaB == F64DivInt(114, 1000)


\* line 50 with the luma truncated, as Math.floor or | 0 would store it
GrayTruncating(r, g, b) ==
    F64Floor(F64Add(F64Add(F64Mul(LumaR, F64FromInt(r)),
                           F64Mul(LumaG, F64FromInt(g))),
                    F64Mul(LumaB, F64FromInt(b))))

\* line 50, stored into the Uint8ClampedArray by lines 51-53
Gray(r, g, b) ==
    ToUint8Clamped(F64Add(F64Add(F64Mul(LumaR, F64FromInt(r)),
                                 F64Mul(LumaG, F64FromInt(g))),
                          F64Mul(LumaB, F64FromInt(b))))

\* lines 49-54: every pixel gets its gray value in R, G and B.  The gray
\* value is evaluated once per distinct colour of the buffer (the table is
\* bound by a set so that TLC evaluates it once and not at every use).
grayscale(data) ==
    LET Pixel(p) == <<At(data, p), At(data, p + 1), At(data, p + 2)>>
        colours  == {Pixel(4 * q) : q \in 0..(Len(data) \div 4 - 1)}
    IN  CHOOSE out \in
            {[k \in 1..Len(data) |->
                IF (k - 1) % 4 = 3 THEN data[k]
                ELSE gray[Pixel(((k - 1) \div 4) * 4)]] :
             gray \in {[c \in colours |-> Gray(c[1], c[2], c[3])]}} : TRUE


\* the loops of lines 65-66 running to y < height and x < width
InteriorToTheEdge(x, y, w, h) == 1 <= x /\ x < w /\ 1 <= y /\ y < h

\* lines 65-66, 92-93 and 153-154: the pixels the loops visit

Interior(x, y, w, h) == 1 <= x /\ x < w - 1 /\ 1 <= y /\ y < h - 1

Offsets == <<-1, 0, 1>>

\* sum over the 3x3 window centred on (x, y) of weight * channel c of src
RECURSIVE WindowSum(_, _, _, _, _, _, _)
WindowSum(src, w, x, y, c, kernel, k) ==
    IF k = 9 THEN 0
    ELSE LET dy == Offsets[k \div 3 + 1]
             dx == Offsets[(k % 3) + 1]
         IN  At(src, ((y + dy) * w + (x + dx)) * 4 + c) * kernel[k + 1]
             + WindowSum(src, w, x, y, c, kernel, k + 1)

Ones == <<1, 1, 1, 1, 1, 1, 1, 1, 1>>


\* line 74 with the mean truncated, as Math.floor(sum / 9) would store it
boxBlurTruncating(data, w, h) ==
    [k \in 1..Len(data) |->
        LET px == (k - 1) \div 4
            c  == (k - 1) % 4
            x  == px % w
            y  == px \div w
        IN  IF c < 3 /\ Interior(x, y, w, h)
            THEN WindowSum(data, w, x, y, c, Ones, 0) \div 9
            ELSE data[k]]

\* lines 61-79: src is a copy of the buffer taken before the pass, read by
\* the sums; the stores go to the buffer itself

boxBlur(data, w, h) ==
    [k \in 1..Len(data) |->
        LET px == (k - 1) \div 4
            c  == (k - 1) % 4
            x  == px % w
            y  == px \div w
        IN  IF c < 3 /\ Interior(x, y, w, h)
            THEN ToUint8Clamped(F64DivInt(WindowSum(data, w, x, y, c, Ones, 0), 9))
            ELSE data[k]]

sobelX == <<-1, 0, 1, -2, 0, 2, -1, 0, 1>>
sobelY == <<-1, -2, -1, 0, 0, 0, 1, 2, 1>>


\* line 107 with the magnitude approximated by |gx| + |gy|
sobelEdgeManhattan(data, w, h) ==
    [k \in 1..(w * h) |->
        LET x == (k - 1) % w
            y == (k - 1) \div w
        IN  IF Interior(x, y, w, h)
            THEN LET gx == WindowSum(data, w, x, y, 0, sobelX, 0)
                     gy == WindowSum(data, w, x, y, 0, sobelY, 0)
                 IN  RoundTo(BigFromNat((IF gx < 0 THEN -gx ELSE gx)
                                        + (IF gy < 0 THEN -gy ELSE gy)), 0, F32Bits)
            ELSE FZero]

\* lines 84-112; a new Float32Array is zero-filled, Math.sqrt is correctly
\* rounded and the store of line 107 rounds to binary32

sobelEdge(data, w, h) ==
    [k \in 1..(w * h) |->
        LET x == (k - 1) % w
            y == (k - 1) \div w
        IN  IF Interior(x, y, w, h)
            THEN LET gx == WindowSum(data, w, x, y, 0, sobelX, 0)
                     gy == WindowSum(data, w, x, y, 0, sobelY, 0)
                 IN  F32Sqrt(gx * gx + gy * gy)
            ELSE FZero]

\* lines 127-130
RECURSIVE MaxMagFrom(_, _, _)
MaxMagFrom(mag, k, maxMag) ==
    IF k >= Len(mag) THEN maxMag
    ELSE MaxMagFrom(mag, k + 1, IF F64Gt(At(mag, k), maxMag) THEN At(mag, k) ELSE maxMag)

MaxMag(mag) == MaxMagFrom(mag, 0, FZero)

\* the cutoff with the sensitivity inverted
NormalizedThresholdInverted(threshold, maxMag) ==
    F64Mul(F64DivInt(255 - threshold, 255), maxMag)

\* the cutoff without the normalisation by maxMag
NormalizedThresholdUnscaled(threshold, maxMag) == F64DivInt(threshold, 255)

\* the Number -a for a >= 0 (negative zero for a = 0)
FNeg(a) == [m |-> a.m, e |-> a.e, neg |-> TRUE]

IsNeg(a) == "neg" \in DOMAIN a

\* line 132; the product is negative (or negative zero) for a negative threshold
NormalizedThreshold(threshold, maxMag) ==
    IF threshold < 0
    THEN FNeg(F64Mul(F64DivInt(-threshold, 255), maxMag))
    ELSE F64Mul(F64DivInt(threshold, 255), maxMag)

\* the comparison of line 135 as >=
IsEdgeInclusive(m, normalizedThreshold) == ~F64Gt(normalizedThreshold, m)

\* the comparison of line 135 as <
IsEdgeReversed(m, normalizedThreshold) == F64Gt(normalizedThreshold, m)

\* line 135; magnitudes are never negative, so a magnitude exceeds a negative
\* cutoff, and exceeds negative zero unless it is zero itself
IsEdge(m, normalizedThreshold) ==
    IF IsNeg(normalizedThreshold)
    THEN m.m # <<>> \/ normalizedThreshold.m # <<>>
    ELSE F64Gt(m, normalizedThreshold)

\* thresholdEdges without the store of line 140
thresholdEdgesAlphaUnset(mag, w, h, threshold) ==
    CHOOSE out \in
        {[k \in 1..(w * h * 4) |->
            IF (k - 1) \div 4 < Len(mag) /\ (k - 1) % 4 # 3
            THEN color[(k - 1) \div 4 + 1]
            ELSE 0] :
         color \in {[k \in 1..Len(mag) |->
                        IF IsEdge(mag[k], normalizedThreshold) THEN 0 ELSE 255] :
                    normalizedThreshold \in {NormalizedThreshold(threshold, MaxMag(mag))}}} :
        TRUE

\* lines 117-144; a new ImageData is zero-filled
thresholdEdges(mag, w, h, threshold) ==
    CHOOSE out \in
        {[k \in 1..(w * h * 4) |->
            IF (k - 1) \div 4 < Len(mag)
            THEN (IF (k - 1) % 4 = 3 THEN 255 ELSE color[(k - 1) \div 4 + 1])
            ELSE 0] :
         color \in {[k \in 1..Len(mag) |->
                        IF IsEdge(mag[k], normalizedThreshold) THEN 0 ELSE 255] :
                    normalizedThreshold \in {NormalizedThreshold(threshold, MaxMag(mag))}}} :
        TRUE

\* lines 155-163: the minimum of 255 and the red channel over the window
RECURSIVE WindowMin(_, _, _, _, _, _)
WindowMin(src, w, x, y, k, minVal) ==
    IF k = 9 THEN minVal
    ELSE LET dy  == Offsets[k \div 3 + 1]
             dx  == Offsets[(k % 3) + 1]
             val == At(src, ((y + dy) * w + (x + dx)) * 4)
         IN  WindowMin(src, w, x, y, k + 1, IF val < minVal THEN val ELSE minVal)

\* dilate taking the maximum of the window: the lines get thinner
RECURSIVE WindowMax(_, _, _, _, _, _)
WindowMax(src, w, x, y, k, maxVal) ==
    IF k = 9 THEN maxVal
    ELSE LET dy  == Offsets[k \div 3 + 1]
             dx  == Offsets[(k % 3) + 1]
             val == At(src, ((y + dy) * w + (x + dx)) * 4)
         IN  WindowMax(src, w, x, y, k + 1, IF val > maxVal THEN val ELSE maxVal)

dilateEroding(data, w, h) ==
    [k \in 1..Len(data) |->
        LET px == (k - 1) \div 4
            c  == (k - 1) % 4
            x  == px % w
            y  == px \div w
        IN  IF c < 3 /\ Interior(x, y, w, h)
            THEN WindowMax(data, w, x, y, 0, 0)
            ELSE data[k]]



\* the window of lines 157-162 without its four corners
RECURSIVE WindowMinCross(_, _, _, _, _, _)
WindowMinCross(src, w, x, y, k, minVal) ==
    IF k = 9 THEN minVal
    ELSE LET dy  == Offsets[k \div 3 + 1]
             dx  == Offsets[(k % 3) + 1]
             val == At(src, ((y + dy) * w + (x + dx)) * 4)
         IN  WindowMinCross(src, w, x, y, k + 1,
                            IF dx * dy = 0 /\ val < minVal THEN val ELSE minVal)

\* dilate along rows and columns only
dilateCross(data, w, h) ==
    [k \in 1..Len(data) |->
        LET px == (k - 1) \div 4
            c  == (k - 1) % 4
            x  == px % w
            y  == px \div w
        IN  IF c < 3 /\ Interior(x, y, w, h)
            THEN WindowMinCross(data, w, x, y, 0, 255)
            ELSE data[k]]


\* dilate with the loops of lines 153-154 over every pixel and the window
\* cut at the edges of the image
dilateToTheEdges(data, w, h) ==
    [k \in 1..Len(data) |->
        LET px == (k - 1) \div 4
            c  == (k - 1) % 4
            x  == px % w
            y  == px \div w
            reds == {At(data, (ny * w + nx) * 4) :
                        nx \in (x - 1)..(x + 1) \cap 0..(w - 1),
                        ny \in (y - 1)..(y + 1) \cap 0..(h - 1)}
        IN  IF c < 3
            THEN CHOOSE m \in reds : \A red \in reds : m <= red
            ELSE data[k]]

\* the channel loop of line 166 running to c < 4: alpha is overwritten too
dilateAllChannels(data, w, h) ==
    [k \in 1..Len(data) |->
        LET px == (k - 1) \div 4
            x  == px % w
            y  == px \div w
        IN  IF Interior(x, y, w, h)
            THEN WindowMin(data, w, x, y, 0, 255)
            ELSE data[k]]

\* lines 149-174
dilate(data, w, h) ==
    [k \in 1..Len(data) |->
        LET px == (k - 1) \div 4
            c  == (k - 1) % 4
            x  == px % w
            y  == px \div w
        IN  IF c < 3 /\ Interior(x, y, w, h)
            THEN WindowMin(data, w, x, y, 0, 255)
            ELSE data[k]]

\* a loop counter that is not set back, as one declared outside the function
LoopStartStale == i

\* let i = 0 of lines 211 and 222
LoopStart == 0

\* the loop test of lines 211 and 222 as <=
LoopContinuesInclusive(k, passes) == k <= passes

\* the loop test of lines 211 and 222
LoopContinues(k, passes) == k < passes

\* lines 211-213
RECURSIVE BlurLoop(_, _, _, _, _)
BlurLoop(data, w, h, k, blurPasses) ==
    IF LoopContinues(k, blurPasses)
    THEN BlurLoop(boxBlur(data, w, h), w, h, k + 1, blurPasses)
    ELSE data

\* lines 222-224
RECURSIVE DilateLoop(_, _, _, _, _)
DilateLoop(data, w, h, k, thickness) ==
    IF LoopContinues(k, thickness)
    THEN DilateLoop(dilate(data, w, h), w, h, k + 1, thickness)
    ELSE data

\* lines 207-224: the pixels put back on a w x h canvas that held data
ProcessPixels(data, w, h, opts) ==
    LET blurred == BlurLoop(grayscale(data), w, h, LoopStart, opts.blurPasses)
        edges   == sobelEdge(blurred, w, h)
        binary  == thresholdEdges(edges, w, h, opts.threshold)
    IN  DilateLoop(binary, w, h, LoopStart, opts.thickness)


-----------------------------------------------------------------------------
(* The array indices of the stages                                         *)

\* the pixels (x, y) visited by the loops of boxBlur, sobelEdge and dilate
VisitedPixels(w, h) ==
    {xy \in (0..w) \X (0..h) : Interior(xy[1], xy[2], w, h)}

\* lines 70-73, 98-100 and 159: the index of channel 0 of each pixel of the
\* 3x3 window of a visited pixel
WindowIndices(w, h) ==
    UNION {{((xy[2] + dy) * w + (xy[1] + dx)) * 4 : dy \in -1..1, dx \in -1..1} :
           xy \in VisitedPixels(w, h)}

\* lines 49-53: data[i], data[i + 1], data[i + 2] for i = 0, 4, ... below
\* data.length
grayscaleIndices(len) ==
    {k + c : k \in {j \in 0..(len - 1) : j % 4 = 0}, c \in 0..2}

\* lines 67-75: src read at the window indices of channels 0..2, the buffer
\* written at the visited pixels' channels 0..2
boxBlurIndices(w, h) ==
    {k + c : k \in WindowIndices(w, h), c \in 0..2}
    \cup {(xy[2] * w + xy[1]) * 4 + c : xy \in VisitedPixels(w, h), c \in 0..2}

\* line 100: data read at the window indices
sobelEdgeIndices(w, h) == WindowIndices(w, h)

\* line 107: magnitude written at the visited pixels
sobelEdgeMagnitudeIndices(w, h) ==
    {xy[2] * w + xy[1] : xy \in VisitedPixels(w, h)}

\* lines 128-129 and 134-135: magnitude[i] for i below magnitude.length
thresholdEdgesMagnitudeIndices(w, h) == 0..(w * h - 1)

\* lines 137-140: data[i * 4] to data[i * 4 + 3]
thresholdEdgesIndices(w, h) ==
    {k * 4 + c : k \in thresholdEdgesMagnitudeIndices(w, h), c \in 0..3}

\* lines 157-169: src read at the window indices, the buffer written at the
\* visited pixels' channels 0..2
dilateIndices(w, h) ==
    WindowIndices(w, h)
    \cup {(xy[2] * w + xy[1]) * 4 + c : xy \in VisitedPixels(w, h), c \in 0..2}

-----------------------------------------------------------------------------
(* Inputs                                                                  *)

\* the sets of pixels (0-based pixel numbers) drawn in the second colour
Foregrounds(w, h) ==
    {{}} \cup {{p} : p \in 0..(w * h - 1)}
         \cup {{y * w + x : x \in 0..(w - 1)} : y \in 0..(h - 1)}
         \cup {{y * w + x : y \in 0..(h - 1)} : x \in 0..(w - 1)}

\* the pixel buffers of a w x h canvas after drawImage
Images(w, h) ==
    {[k \in 1..(w * h * 4) |->
        IF (k - 1) \div 4 \in F THEN cp[2][((k - 1) % 4) + 1] ELSE cp[1][((k - 1) % 4) + 1]] :
        cp \in ColourPairs, F \in Foregrounds(w, h)}

\* no boxBlur or dilate call under way
NoPass ==
    /\ snapshot = <<>>
    /\ visited = {}

\* part_003 lines 22-32: the component as mounted, nothing selected, the
\* health probe under way
NoLineArt == <<"none", 0>>

HandlerAtRest ==
    /\ hpc = "idle"
    /\ selectedFile = "null"
    /\ qualityMode = "quick"
    /\ apiAvailable = "null"
    /\ probe = "pending"
    /\ lineArtSrc = NoLineArt
    /\ drawing = "blank"
    /\ isConverting = FALSE
    /\ alerts = <<>>
    /\ mode = [qualityMode |-> "quick", apiAvailable |-> "null"]
    /\ remoteCalls = 0
    /\ localCalls = 0
    /\ outcomes = <<>>
    /\ before = NoLineArt
    /\ cleared = FALSE
    /\ requests = 0

\* exportToPdf not called
PdfAtRest ==
    /\ ppc = "idle"
    /\ imageWidth = 0
    /\ imageHeight = 0
    /\ pageWidth = FZero
    /\ pageHeight = FZero

\* lines 13-18
defaultOptions == [threshold |-> 50, blurPasses |-> 1, thickness |-> 1, maxDim |-> 1200]

OptionSets(maxDims) ==
    [threshold : Thresholds, blurPasses : 0..MaxBlurPasses,
     thickness : 0..MaxThickness, maxDim : maxDims]

InitWith(widths, heights, maxDims) ==
    /\ pc = "start"
    /\ naturalWidth \in widths
    /\ naturalHeight \in heights
    /\ options \in OptionSets(maxDims)
    /\ width = 0
    /\ height = 0
    /\ canvas = <<>>
    /\ imageData = <<>>
    /\ magnitude = <<>>
    /\ output = <<>>
    /\ i = 0
    /\ result = <<>>
    /\ source = <<>>
    /\ run = 1
    /\ first = <<>>
    /\ NoPass
    /\ HandlerAtRest
    /\ PdfAtRest

Init == InitWith(1..MaxNaturalWidth, 1..MaxNaturalHeight, {MaxNaturalWidth - 1})

\* the resizer over a wider range of sizes, default values for the options
\* it does not read
InitResize ==
    /\ InitWith(1..MaxResizeNatural, 1..MaxResizeNatural, 1..MaxResizeMaxDim)
    /\ options.threshold = 128
    /\ options.blurPasses = MaxBlurPasses
    /\ options.thickness = MaxThickness

-----------------------------------------------------------------------------
(* convertToLineArt, step by step                                          *)

\* lines 185-193
CalculateScaledDimensions ==
    /\ pc = "start"
    /\ LET d == ScaledDimensions(naturalWidth, naturalHeight, options.maxDim)
       IN  /\ width' = d.width
           /\ height' = d.height
    /\ pc' = "scaled"
    /\ UNCHANGED <<naturalWidth, naturalHeight, options, canvas, imageData,
                   magnitude, output, i, result>>
    /\ UNCHANGED <<source, run, first, passVars, handlerVars, pdfVars>>

\* lines 195-205: the canvas takes the scaled size, the image is drawn on it
\* and read back
DrawScaledImage ==
    /\ pc = "scaled"
    /\ width >= 1
    /\ height >= 1
    /\ canvas' \in (IF run = 1 THEN Images(width, height) ELSE {source})
    /\ imageData' = canvas'
    /\ source' = canvas'
    /\ pc' = "loaded"
    /\ UNCHANGED <<naturalWidth, naturalHeight, options, width, height,
                   magnitude, output, i, result>>
    /\ UNCHANGED <<run, first, passVars, handlerVars, pdfVars>>

\* line 205 on a canvas with a zero dimension: getImageData throws
\* IndexSizeError and the promise of convertToLineArt rejects
GetImageDataThrows ==
    /\ pc = "scaled"
    /\ width = 0 \/ height = 0
    /\ pc' = "rejected"
    /\ UNCHANGED <<naturalWidth, naturalHeight, options, width, height, canvas,
                   imageData, magnitude, output, i, result>>
    /\ UNCHANGED <<source, run, first, passVars, handlerVars, pdfVars>>

\* line 208
ConvertToGrayscale ==
    /\ pc = "loaded"
    /\ imageData' = grayscale(imageData)
    /\ i' = LoopStart
    /\ pc' = "blur"
    /\ UNCHANGED <<naturalWidth, naturalHeight, options, width, height, canvas,
                   magnitude, output, result>>
    /\ UNCHANGED <<source, run, first, passVars, handlerVars, pdfVars>>

\* lines 211-213, one iteration
ApplyBlurPass ==
    /\ pc = "blur"
    /\ LoopContinues(i, options.blurPasses)
    /\ imageData' = boxBlur(imageData, width, height)
    /\ i' = i + 1
    /\ UNCHANGED <<pc, naturalWidth, naturalHeight, options, width, height,
                   canvas, magnitude, output, result>>
    /\ UNCHANGED <<source, run, first, passVars, handlerVars, pdfVars>>

\* line 216, after the blur loop has ended
SobelEdgeDetection ==
    /\ pc = "blur"
    /\ ~LoopContinues(i, options.blurPasses)
    /\ magnitude' = sobelEdge(imageData, width, height)
    /\ pc' = "edges"
    /\ UNCHANGED <<naturalWidth, naturalHeight, options, width, height, canvas,
                   imageData, output, i, result>>
    /\ UNCHANGED <<source, run, first, passVars, handlerVars, pdfVars>>

\* line 219
ThresholdToBinary ==
    /\ pc = "edges"
    /\ output' = thresholdEdges(magnitude, width, height, options.threshold)
    /\ i' = LoopStart
    /\ pc' = "dilate"
    /\ UNCHANGED <<naturalWidth, naturalHeight, options, width, height, canvas,
                   imageData, magnitude, result>>
    /\ UNCHANGED <<source, run, first, passVars, handlerVars, pdfVars>>

\* lines 222-224, one iteration
ApplyDilation ==
    /\ pc = "dilate"
    /\ LoopContinues(i, options.thickness)
    /\ output' = dilate(output, width, height)
    /\ i' = i + 1
    /\ UNCHANGED <<pc, naturalWidth, naturalHeight, options, width, height,
                   canvas, imageData, magnitude, result>>
    /\ UNCHANGED <<source, run, first, passVars, handlerVars, pdfVars>>

\* lines 226-229, after the dilation loop has ended: PNG is lossless, the
\* data URL stands for the canvas size and pixels
PutResult ==
    /\ pc = "dilate"
    /\ ~LoopContinues(i, options.thickness)
    /\ canvas' = output
    /\ result' = [width |-> width, height |-> height, data |-> output]
    /\ pc' = "done"
    /\ UNCHANGED <<naturalWidth, naturalHeight, options, width, height,
                   imageData, magnitude, output, i>>
    /\ UNCHANGED <<source, run, first, passVars, handlerVars, pdfVars>>

Next ==
    \/ CalculateScaledDimensions
    \/ DrawScaledImage
    \/ GetImageDataThrows
    \/ ConvertToGrayscale
    \/ ApplyBlurPass
    \/ SobelEdgeDetection
    \/ ThresholdToBinary
    \/ ApplyDilation
    \/ PutResult

Spec == Init /\ [][Next]_vars

NextResize == CalculateScaledDimensions

\* a second call of convertToLineArt with the same image and options, after
\* the first has resolved; what the first call left behind is still there
ConvertAgain ==
    /\ pc = "done"
    /\ run = 1
    /\ first' = result
    /\ run' = 2
    /\ pc' = "start"
    /\ UNCHANGED <<naturalWidth, naturalHeight, options, width, height, canvas,
                   imageData, magnitude, output, i, result, source>>
    /\ UNCHANGED <<passVars, handlerVars, pdfVars>>

InitRerun ==
    /\ InitWith(1..MaxNaturalWidth, 1..MaxNaturalHeight, {MaxNaturalWidth - 1})
    /\ options.threshold = 128

NextRerun ==
    \/ Next
    \/ ConvertAgain

SpecRerun == InitRerun /\ [][NextRerun]_vars

\* lines 7-9: the documented ranges of the options
MaxThresholdOption == 255
MaxBlurPassesOption == 3
MaxThicknessOption == 2

\* option values one step outside the documented ranges, one option at a
\* time, the other options inside
OutOfRangeOptions(maxDim) ==
    {[threshold |-> t, blurPasses |-> 0, thickness |-> 0, maxDim |-> maxDim] :
        t \in {-1, MaxThresholdOption + 1}}
    \cup {[threshold |-> 128, blurPasses |-> b, thickness |-> 0, maxDim |-> maxDim] :
        b \in {-1, MaxBlurPassesOption + 1}}
    \cup {[threshold |-> 128, blurPasses |-> 0, thickness |-> k, maxDim |-> maxDim] :
        k \in {-1, MaxThicknessOption + 1}}

\* convertToLineArt called with an option outside its documented range
InitRange ==
    /\ pc = "start"
    /\ naturalWidth \in 1..MaxNaturalWidth
    /\ naturalHeight \in 1..MaxNaturalHeight
    /\ options \in OutOfRangeOptions(MaxNaturalWidth - 1)
    /\ width = 0
    /\ height = 0
    /\ canvas = <<>>
    /\ imageData = <<>>
    /\ magnitude = <<>>
    /\ output = <<>>
    /\ i = 0
    /\ result = <<>>
    /\ source = <<>>
    /\ run = 1
    /\ first = <<>>
    /\ NoPass
    /\ HandlerAtRest
    /\ PdfAtRest

SpecRange == InitRange /\ [][Next]_vars


\* the pixel stages alone, on canvases that need no resizing: lines 195-229
\* with the scaled size given, sizes with no interior pixel, with one row of
\* interior pixels and with several
MaxDilations == 2
StageSizes == {<<1, 1>>, <<2, 3>>, <<3, 2>>, <<4, 4>>, <<5, 4>>}

InitStages ==
    /\ pc = "scaled"
    /\ \E s \in StageSizes :
          /\ naturalWidth = s[1]
          /\ naturalHeight = s[2]
          /\ width = s[1]
          /\ height = s[2]
    /\ options \in [threshold : Thresholds, blurPasses : 0..MaxBlurPasses,
                    thickness : {MaxDilations}, maxDim : {defaultOptions.maxDim}]
    /\ canvas = <<>>
    /\ imageData = <<>>
    /\ magnitude = <<>>
    /\ output = <<>>
    /\ i = 0
    /\ result = <<>>
    /\ source = <<>>
    /\ run = 1
    /\ first = <<>>
    /\ NoPass
    /\ HandlerAtRest
    /\ PdfAtRest

NextStages ==
    \/ DrawScaledImage
    \/ ConvertToGrayscale
    \/ ApplyBlurPass
    \/ SobelEdgeDetection
    \/ ThresholdToBinary
    \/ ApplyDilation
    \/ PutResult

SpecStages == InitStages /\ [][NextStages]_vars


\* grayscale alone, on buffers of one and of two pixels of many colours;
\* among them colours whose luma is half way between two integers
\* (0.587 * 80 + 0.114 * 110 = 59.5, 0.114 * 250 = 28.5)
RedSamples == {0, 1, 255}
GreenSamples == {0, 4, 37, 80, 255}
BlueSamples == {0, 13, 110, 168, 250, 255}
AlphaSamples == {0, 128, 255}

ColourSamples ==
    {<<r, g, b, a>> : r \in RedSamples, g \in GreenSamples, b \in BlueSamples,
                      a \in AlphaSamples}

InitGray ==
    /\ pc = "loaded"
    /\ naturalHeight = 1
    /\ height = 1
    /\ width \in {1, 2}
    /\ naturalWidth = width
    /\ options = defaultOptions
    /\ canvas \in {c : c \in ColourSamples}
               \cup {c \o d : c \in ColourSamples, d \in {Black, Tint}}
    /\ Len(canvas) = width * 4
    /\ imageData = canvas
    /\ source = canvas
    /\ magnitude = <<>>
    /\ output = <<>>
    /\ i = 0
    /\ result = <<>>
    /\ run = 1
    /\ first = <<>>
    /\ NoPass
    /\ HandlerAtRest
    /\ PdfAtRest

NextGray == ConvertToGrayscale

SpecGray == InitGray /\ [][NextGray]_vars


\* the binarizer on 4x3 gray images of three equal rows <<0, 0, a, b>>: the
\* two interior pixels get the gradients gx = 4a and gx = 4b, gy = 0
GraySamples == {0, 31, 51, 255}
ThresholdSamples4x3 == {0, 50, 155, 255}

GrayPixel(v) == <<v, v, v, 255>>

StepImage(a, b) ==
    LET row == GrayPixel(0) \o GrayPixel(0) \o GrayPixel(a) \o GrayPixel(b)
    IN  row \o row \o row

InitThreshold ==
    /\ pc = "loaded"
    /\ naturalWidth = 4
    /\ naturalHeight = 3
    /\ width = 4
    /\ height = 3
    /\ options \in [threshold : ThresholdSamples4x3, blurPasses : {0},
                    thickness : {0}, maxDim : {defaultOptions.maxDim}]
    /\ canvas \in {StepImage(a, b) : a \in GraySamples, b \in GraySamples}
    /\ imageData = canvas
    /\ source = canvas
    /\ magnitude = <<>>
    /\ output = <<>>
    /\ i = 0
    /\ result = <<>>
    /\ run = 1
    /\ first = <<>>
    /\ NoPass
    /\ HandlerAtRest
    /\ PdfAtRest

NextThreshold ==
    \/ ConvertToGrayscale
    \/ SobelEdgeDetection
    \/ ThresholdToBinary
    \/ PutResult

SpecThreshold == InitThreshold /\ [][NextThreshold]_vars


-----------------------------------------------------------------------------
(* boxBlur and dilate pixel by pixel                                       *)

\* the window reading the buffer that is being written
WindowSourceLive(copy, live) == live

\* lines 72 and 159: the window reads src, the copy of lines 62 and 150
WindowSource(copy, live) == copy

\* lines 67-76 for the pixel (x, y): the three stores of line 74
BlurPixelAt(read, live, w, x, y) ==
    [k \in 1..Len(live) |->
        IF (k - 1) \div 4 = y * w + x /\ (k - 1) % 4 < 3
        THEN ToUint8Clamped(F64DivInt(WindowSum(read, w, x, y, (k - 1) % 4, Ones, 0), 9))
        ELSE live[k]]

\* lines 155-169 for the pixel (x, y)
DilatePixelAt(read, live, w, x, y) ==
    [k \in 1..Len(live) |->
        IF (k - 1) \div 4 = y * w + x /\ (k - 1) % 4 < 3
        THEN WindowMin(read, w, x, y, 0, 255)
        ELSE live[k]]

\* lines 61-63 in the iteration of line 212
BeginBlurPass ==
    /\ pc = "blur"
    /\ LoopContinues(i, options.blurPasses)
    /\ snapshot' = imageData
    /\ visited' = {}
    /\ pc' = "blurring"
    /\ UNCHANGED <<naturalWidth, naturalHeight, options, width, height, canvas,
                   imageData, magnitude, output, i, result>>
    /\ UNCHANGED <<source, run, first, handlerVars, pdfVars>>

\* one iteration of the loops of lines 65-66, in any order
BlurPixel ==
    /\ pc = "blurring"
    /\ \E xy \in VisitedPixels(width, height) \ visited :
          /\ imageData' = BlurPixelAt(WindowSource(snapshot, imageData), imageData,
                                      width, xy[1], xy[2])
          /\ visited' = visited \cup {xy}
    /\ UNCHANGED <<pc, naturalWidth, naturalHeight, options, width, height,
                   canvas, magnitude, output, i, result, snapshot>>
    /\ UNCHANGED <<source, run, first, handlerVars, pdfVars>>

\* line 78 and the i++ of line 211
EndBlurPass ==
    /\ pc = "blurring"
    /\ visited = VisitedPixels(width, height)
    /\ snapshot' = <<>>
    /\ visited' = {}
    /\ i' = i + 1
    /\ pc' = "blur"
    /\ UNCHANGED <<naturalWidth, naturalHeight, options, width, height, canvas,
                   imageData, magnitude, output, result>>
    /\ UNCHANGED <<source, run, first, handlerVars, pdfVars>>

\* lines 149-151 in the iteration of line 223
BeginDilatePass ==
    /\ pc = "dilate"
    /\ LoopContinues(i, options.thickness)
    /\ snapshot' = output
    /\ visited' = {}
    /\ pc' = "dilating"
    /\ UNCHANGED <<naturalWidth, naturalHeight, options, width, height, canvas,
                   imageData, magnitude, output, i, result>>
    /\ UNCHANGED <<source, run, first, handlerVars, pdfVars>>

\* one iteration of the loops of lines 153-154, in any order
DilatePixel ==
    /\ pc = "dilating"
    /\ \E xy \in VisitedPixels(width, height) \ visited :
          /\ output' = DilatePixelAt(WindowSource(snapshot, output), output,
                                     width, xy[1], xy[2])
          /\ visited' = visited \cup {xy}
    /\ UNCHANGED <<pc, naturalWidth, naturalHeight, options, width, height,
                   canvas, imageData, magnitude, i, result, snapshot>>
    /\ UNCHANGED <<source, run, first, handlerVars, pdfVars>>

\* line 173 and the i++ of line 222
EndDilatePass ==
    /\ pc = "dilating"
    /\ visited = VisitedPixels(width, height)
    /\ snapshot' = <<>>
    /\ visited' = {}
    /\ i' = i + 1
    /\ pc' = "dilate"
    /\ UNCHANGED <<naturalWidth, naturalHeight, options, width, height, canvas,
                   imageData, magnitude, output, result>>
    /\ UNCHANGED <<source, run, first, handlerVars, pdfVars>>

\* one blur pass and one dilate pass on canvases with one, two and four
\* interior pixels
PassSizes == {<<3, 3>>, <<4, 3>>, <<4, 4>>}

InitPass ==
    /\ pc = "scaled"
    /\ \E s \in PassSizes :
          /\ naturalWidth = s[1]
          /\ naturalHeight = s[2]
          /\ width = s[1]
          /\ height = s[2]
    /\ options \in [threshold : {0, 128}, blurPasses : {1}, thickness : {1},
                    maxDim : {defaultOptions.maxDim}]
    /\ canvas = <<>>
    /\ imageData = <<>>
    /\ magnitude = <<>>
    /\ output = <<>>
    /\ i = 0
    /\ result = <<>>
    /\ source = <<>>
    /\ run = 1
    /\ first = <<>>
    /\ NoPass
    /\ HandlerAtRest
    /\ PdfAtRest

NextPass ==
    \/ DrawScaledImage
    \/ ConvertToGrayscale
    \/ BeginBlurPass
    \/ BlurPixel
    \/ EndBlurPass
    \/ SobelEdgeDetection
    \/ ThresholdToBinary
    \/ BeginDilatePass
    \/ DilatePixel
    \/ EndDilatePass
    \/ PutResult

SpecPass == InitPass /\ [][NextPass]_vars

-----------------------------------------------------------------------------
(* handleConvert and the component state it works on                      *)

\* conversion requests followed
MaxRequests == 2

\* convertToLineArt not called
PipelineAtRest ==
    /\ pc = "idle"
    /\ naturalWidth = 0
    /\ naturalHeight = 0
    /\ options = defaultOptions
    /\ width = 0
    /\ height = 0
    /\ canvas = <<>>
    /\ imageData = <<>>
    /\ magnitude = <<>>
    /\ output = <<>>
    /\ i = 0
    /\ result = <<>>
    /\ source = <<>>
    /\ run = 1
    /\ first = <<>>
    /\ NoPass

\* the initialImage property: none, or an image shown from the start
InitialImages == {NoLineArt, <<"initial", 0>>}

InitHandler ==
    /\ PipelineAtRest
    /\ PdfAtRest
    /\ HandlerAtRest
    /\ \E img \in InitialImages : lineArtSrc = img /\ before = img

\* the texts of the two alerts
FallbackNotice == "HQ server unavailable, used quick conversion instead."

\* the failure branch showing the text of the fallback notice
FailureAlertAsNotice == "HQ server unavailable, used quick conversion instead."

FailureAlert == "Failed to convert image. Please try again."

\* the remote path taken unless the probe has reported the server down
UseRemoteUnlessDown(quality, available) == quality = "hq" /\ available # "false"

\* line 257: qualityMode === 'hq' && apiAvailable (null is falsy)
UseRemote(quality, available) == quality = "hq" /\ available = "true"

\* the test of line 270 made on the other mode
FallsBackInQuickMode(quality) == quality = "quick"

\* line 270: qualityMode === 'hq'
FallsBack(quality) == quality = "hq"

\* lines 226-234: the drawing canvas after handleClear
handleClear == "blank"

\* the data URL a conversion of the current request resolves with
DataUrl(path) == <<path, requests>>

\* lines 237-242
HandleFileChange ==
    /\ selectedFile' = "file"
    /\ UNCHANGED <<hpc, qualityMode, apiAvailable, probe, lineArtSrc, drawing,
                   isConverting, alerts, mode, remoteCalls, localCalls, outcomes,
                   before, cleared, requests>>
    /\ UNCHANGED <<pipelineVars, pdfVars>>

\* lines 504 and 514
SetQualityMode ==
    /\ \E quality \in {"quick", "hq"} : qualityMode' = quality
    /\ UNCHANGED <<hpc, selectedFile, apiAvailable, probe, lineArtSrc, drawing,
                   isConverting, alerts, mode, remoteCalls, localCalls, outcomes,
                   before, cleared, requests>>
    /\ UNCHANGED <<pipelineVars, pdfVars>>

\* lines 245-247 with checkAPIHealth (lineArtAPI.ts lines 32-42): the probe
\* resolves with response.ok, or with false on an error or after 5 seconds
HealthProbeSettles ==
    /\ probe = "pending"
    /\ probe' = "settled"
    /\ \E healthy \in {"true", "false"} : apiAvailable' = healthy
    /\ UNCHANGED <<hpc, selectedFile, qualityMode, lineArtSrc, drawing,
                   isConverting, alerts, mode, remoteCalls, localCalls, outcomes,
                   before, cleared, requests>>
    /\ UNCHANGED <<pipelineVars, pdfVars>>

\* lines 180-210: a stroke on the drawing canvas
Draw ==
    /\ drawing' = "drawn"
    /\ UNCHANGED <<hpc, selectedFile, qualityMode, apiAvailable, probe, lineArtSrc,
                   isConverting, alerts, mode, remoteCalls, localCalls, outcomes,
                   before, cleared, requests>>
    /\ UNCHANGED <<pipelineVars, pdfVars>>

\* lines 250-263, up to the first await; the button is disabled while
\* isConverting (line 613)

\* isConverting after a handler without the finally block
AfterFinallySkipped == isConverting

\* lines 282-284 (part_004 lines 244-246): setIsConverting(false) in the
\* finally block, on every way out of the try statement
AfterFinally == FALSE

\* lines 250-263 up to the first await; the file input and the button stay
\* usable only while isConverting is false (line 613)

StartConvert ==
    /\ hpc = "idle"
    /\ ~isConverting
    /\ selectedFile # "null"
    /\ requests < MaxRequests
    /\ requests' = requests + 1
    /\ isConverting' = TRUE
    /\ mode' = [qualityMode |-> qualityMode, apiAvailable |-> apiAvailable]
    /\ alerts' = <<>>
    /\ outcomes' = <<>>
    /\ before' = lineArtSrc
    /\ cleared' = FALSE
    /\ IF UseRemote(qualityMode, apiAvailable)
       THEN hpc' = "remote" /\ remoteCalls' = 1 /\ localCalls' = 0
       ELSE hpc' = "local" /\ remoteCalls' = 0 /\ localCalls' = 1
    /\ UNCHANGED <<selectedFile, qualityMode, apiAvailable, probe, lineArtSrc, drawing>>
    /\ UNCHANGED <<pipelineVars, pdfVars>>

\* lines 265-266 and 283 after the awaited call of the try block resolved
Resolved(path) ==
    /\ lineArtSrc' = DataUrl(path)
    /\ drawing' = handleClear
    /\ cleared' = TRUE
    /\ outcomes' = Append(outcomes, <<path, "ok">>)
    /\ isConverting' = AfterFinally
    /\ hpc' = "idle"
    /\ UNCHANGED <<selectedFile, qualityMode, apiAvailable, probe, alerts, mode,
                   remoteCalls, localCalls, before, requests>>
    /\ UNCHANGED <<pipelineVars, pdfVars>>

\* lines 267-283 after the awaited call of the try block rejected: the
\* fallback call is started, or the failure is reported
Rejected(path) ==
    /\ outcomes' = Append(outcomes, <<path, "error">>)
    /\ IF FallsBack(mode.qualityMode)
       THEN /\ hpc' = "fallback"
            /\ localCalls' = localCalls + 1
            /\ UNCHANGED <<alerts, isConverting>>
       ELSE /\ alerts' = Append(alerts, FailureAlert)
            /\ isConverting' = AfterFinally
            /\ hpc' = "idle"
            /\ UNCHANGED localCalls
    /\ UNCHANGED <<selectedFile, qualityMode, apiAvailable, probe, lineArtSrc,
                   drawing, mode, remoteCalls, before, cleared, requests>>
    /\ UNCHANGED <<pipelineVars, pdfVars>>

\* line 259: convertWithAPI resolves with result.image
RemoteResolves == hpc = "remote" /\ Resolved("remote")

\* line 259: convertWithAPI rejects, the service being unreachable (fetch
\* rejects) or answering with an error (lineArtAPI.ts lines 69-72)
RemoteRejects == hpc = "remote" /\ Rejected("remote")

\* line 262: fileToLineArt resolves
LocalResolves == hpc = "local" /\ Resolved("local")

\* line 262: fileToLineArt rejects
LocalRejects == hpc = "local" /\ Rejected("local")

\* lines 272-275 and 283
FallbackResolves ==
    /\ hpc = "fallback"
    /\ lineArtSrc' = DataUrl("local")
    /\ drawing' = handleClear
    /\ cleared' = TRUE
    /\ alerts' = Append(alerts, FallbackNotice)
    /\ outcomes' = Append(outcomes, <<"local", "ok">>)
    /\ isConverting' = AfterFinally
    /\ hpc' = "idle"
    /\ UNCHANGED <<selectedFile, qualityMode, apiAvailable, probe, mode,
                   remoteCalls, localCalls, before, requests>>
    /\ UNCHANGED <<pipelineVars, pdfVars>>

\* lines 276-278 and 283
FallbackRejects ==
    /\ hpc = "fallback"
    /\ alerts' = Append(alerts, FailureAlert)
    /\ outcomes' = Append(outcomes, <<"local", "error">>)
    /\ isConverting' = AfterFinally
    /\ hpc' = "idle"
    /\ UNCHANGED <<selectedFile, qualityMode, apiAvailable, probe, lineArtSrc,
                   drawing, mode, remoteCalls, localCalls, before, cleared, requests>>
    /\ UNCHANGED <<pipelineVars, pdfVars>>

NextHandler ==
    \/ HandleFileChange
    \/ SetQualityMode
    \/ HealthProbeSettles
    \/ Draw
    \/ StartConvert
    \/ RemoteResolves
    \/ RemoteRejects
    \/ LocalResolves
    \/ LocalRejects
    \/ FallbackResolves
    \/ FallbackRejects

SpecHandler == InitHandler /\ [][NextHandler]_vars

\* fileToLineArt works on the file in the browser and settles; nothing makes
\* the pending fetch of convertWithAPI settle (it has no signal, line 55)
SpecHandlerLive ==
    /\ InitHandler
    /\ [][NextHandler]_vars
    /\ WF_vars(LocalResolves \/ LocalRejects)
    /\ WF_vars(FallbackResolves \/ FallbackRejects)

SpecResize == InitResize /\ [][NextResize]_vars

-----------------------------------------------------------------------------
(* Properties of the resizer (SpecResize)                                  *)

Scaled == pc = "scaled"

NeedsResize == naturalWidth > options.maxDim \/ naturalHeight > options.maxDim

\* C1: for every native width >= 1, height >= 1 and maxDim >= 1, neither
\* computed dimension exceeds maxDim.
C1_WithinMaxDim == Scaled => Max(width, height) <= options.maxDim

C1_Witness == Scaled /\ NeedsResize /\ Max(width, height) = options.maxDim

\* C2: the resizer never upscales: both output dimensions are at most the
\* native ones, and an image within maxDim on both sides keeps its size.
C2_NeverUpscales ==
    Scaled =>
        /\ width <= naturalWidth
        /\ height <= naturalHeight
        /\ ~NeedsResize => width = naturalWidth /\ height = naturalHeight

C2_Witness ==
    /\ Scaled
    /\ naturalWidth < options.maxDim
    /\ naturalHeight < options.maxDim
    /\ width = naturalWidth
    /\ height = naturalHeight

\* C3: for positive native width, height and maxDim both output dimensions
\* are at least 1.
C3_DimensionsPositive == Scaled => width >= 1 /\ height >= 1

\* C4: when the image exceeds maxDim on a side, the output dimensions are
\* the exact floors of width * maxDim / max(width, height) and of
\* height * maxDim / max(width, height); the larger side becomes maxDim.
C4_ExactFloor ==
    Scaled /\ NeedsResize =>
        LET larger == Max(naturalWidth, naturalHeight)
        IN  /\ width = (naturalWidth * options.maxDim) \div larger
            /\ height = (naturalHeight * options.maxDim) \div larger
            /\ Max(width, height) = options.maxDim

-----------------------------------------------------------------------------
(* Properties of the pixel stages (Spec)                                   *)

\* pixel p (0-based) of an RGBA buffer
PixelAt(data, p) ==
    <<At(data, 4 * p), At(data, 4 * p + 1), At(data, 4 * p + 2), At(data, 4 * p + 3)>>

Pixels(data) == 0..(Len(data) \div 4 - 1)

BlackPixels(data) == {p \in Pixels(data) : PixelAt(data, p) = Black}

WhitePixels(data) == {p \in Pixels(data) : PixelAt(data, p) = White}

Uniform(data) == \A p \in Pixels(data) : PixelAt(data, p) = PixelAt(data, 0)

\* output holds the result of thresholdEdges, no dilation pass has run
Binarized == pc = "dilate" /\ i = 0

\* C5: after thresholdEdges and after each dilate pass every pixel of the
\* output is (0,0,0,255) or (255,255,255,255); so is the encoded result.
C5_PureBlackAndWhite ==
    /\ pc \in {"dilate", "done"} =>
        /\ Len(output) = width * height * 4
        /\ \A p \in Pixels(output) : PixelAt(output, p) \in {Black, White}
    /\ pc = "done" => result.data = output

C5_Witness ==
    /\ pc = "dilate"
    /\ i >= 1
    /\ BlackPixels(output) # {}
    /\ WhitePixels(output) # {}
    /\ output # thresholdEdges(magnitude, width, height, options.threshold)

\* C6: for a uniform canvas, whatever the threshold, blurPasses and
\* thickness, every gradient magnitude is 0 and the output, after
\* thresholdEdges and after every dilate pass, is entirely white.
C6_UniformGivesWhite ==
    pc \in {"edges", "dilate"} /\ Uniform(canvas) =>
        /\ \A k \in 1..Len(magnitude) : magnitude[k] = FZero
        /\ pc = "dilate" => WhitePixels(output) = Pixels(output)

C6_Witness ==
    /\ pc = "dilate"
    /\ i = options.thickness
    /\ options.thickness >= 1
    /\ options.blurPasses >= 1
    /\ options.threshold = 0
    /\ width >= 3
    /\ height >= 3
    /\ Uniform(canvas)
    /\ PixelAt(canvas, 0) = Tint
    /\ WhitePixels(output) = Pixels(output)

\* thresholds at which the binarizer is compared with itself
ThresholdSamples == {0, 1, 64, 128, 192, 254, 255}

\* C7: on the same magnitude map, a pixel that thresholdEdges makes black at
\* a threshold is black at every lower threshold: the black pixels at
\* t2 >= t1 are among those at t1.
C7_MonotoneInThreshold ==
    Binarized =>
        \A shown \in {BlackPixels(output)} :
            \A t \in ThresholdSamples :
                \A black \in {BlackPixels(thresholdEdges(magnitude, width, height, t))} :
                    /\ t >= options.threshold => black \subseteq shown
                    /\ t <= options.threshold => shown \subseteq black

C7_Witness ==
    /\ Binarized
    /\ options.threshold = 128
    /\ BlackPixels(output) # {}
    /\ BlackPixels(output) # BlackPixels(thresholdEdges(magnitude, width, height, 0))
    /\ BlackPixels(thresholdEdges(magnitude, width, height, 255)) # BlackPixels(output)

\* C8: with threshold 0 every pixel of non-zero gradient magnitude is black,
\* so a map with a non-zero magnitude gives at least one black pixel.
C8_ZeroThresholdMarksEveryGradient ==
    Binarized /\ options.threshold = 0 =>
        /\ \A p \in Pixels(output) : At(magnitude, p) # FZero => PixelAt(output, p) = Black
        /\ (\E k \in 1..Len(magnitude) : magnitude[k] # FZero) => BlackPixels(output) # {}

C8_Witness ==
    /\ Binarized
    /\ options.threshold = 0
    /\ \E k \in 1..Len(magnitude) : magnitude[k] # FZero
    /\ BlackPixels(output) # {}

\* C9: with threshold 255 every black pixel holds the global maximum of the
\* magnitude map; no pixel of smaller magnitude is black.
C9_OnlyMaximaAtFullThreshold ==
    Binarized /\ options.threshold = 255 =>
        \A p \in BlackPixels(output) : At(magnitude, p) = MaxMag(magnitude)

C9_Witness ==
    /\ Binarized
    /\ options.threshold = 255
    /\ \E p \in Pixels(output) :
          /\ At(magnitude, p) # FZero
          /\ At(magnitude, p) # MaxMag(magnitude)
          /\ PixelAt(output, p) = White

\* C10: with threshold 255 and a non-zero maximum, the pixels holding the
\* global maximum of the magnitude map are black.
C10_MaximaBlackAtFullThreshold ==
    Binarized /\ options.threshold = 255 /\ MaxMag(magnitude) # FZero =>
        \A p \in Pixels(output) :
            At(magnitude, p) = MaxMag(magnitude) => PixelAt(output, p) = Black

-----------------------------------------------------------------------------
(* Properties of the iterated stages (Spec)                                *)

Done == pc = "done"

\* C11: with blurPasses = 0 and thickness = 0 the result is that of
\* grayscale, sobelEdge and thresholdEdges alone; boxBlur has not touched the
\* grayscale buffer and no dilation pass was counted.
C11_ZeroIterationsAreNoOps ==
    Done /\ options.blurPasses = 0 /\ options.thickness = 0 =>
        /\ imageData = grayscale(source)
        /\ i = 0
        /\ result.data = thresholdEdges(sobelEdge(grayscale(source), width, height),
                                        width, height, options.threshold)

C11_Witness ==
    /\ Done
    /\ options.blurPasses = 0
    /\ options.thickness = 0
    /\ BlackPixels(result.data) # {}
    /\ boxBlur(imageData, width, height) # imageData
    /\ dilate(result.data, width, height) # result.data

\* an interior white pixel with a black pixel in its 3x3 neighbourhood
Thickens(data, w, h) ==
    \E black \in {BlackPixels(data)} :
        \E p \in WhitePixels(data) :
            /\ Interior(p % w, p \div w, w, h)
            /\ \E dy \in {-1, 0, 1}, dx \in {-1, 0, 1} :
                  ((p \div w) + dy) * w + ((p % w) + dx) \in black

\* C12: one more dilate pass keeps every black pixel black, and makes the
\* black pixels strictly more numerous whenever an interior white pixel has
\* a black pixel in its 3x3 neighbourhood.
C12_ThicknessGrowsLines ==
    pc = "dilate" =>
        \A thicker \in {BlackPixels(dilate(output, width, height))} :
            /\ BlackPixels(output) \subseteq thicker
            /\ Thickens(output, width, height) =>
                  Cardinality(thicker) > Cardinality(BlackPixels(output))

C12_Witness ==
    /\ pc = "dilate"
    /\ i = 1
    /\ Thickens(thresholdEdges(magnitude, width, height, options.threshold), width, height)
    /\ Cardinality(BlackPixels(output)) >
          Cardinality(BlackPixels(thresholdEdges(magnitude, width, height, options.threshold)))
    /\ WhitePixels(output) # {}

-----------------------------------------------------------------------------
(* Two conversions of the same input (SpecRerun)                           *)

\* C13: the second conversion of the same pixels with the same options,
\* started on what the first one left behind, gives the result of the first.
C13_SecondRunIdentical == Done /\ run = 2 => result = first

C13_Witness ==
    /\ Done
    /\ run = 2
    /\ options.blurPasses > 0
    /\ options.thickness > 0
    /\ BlackPixels(result.data) # {}
    /\ WhitePixels(result.data) # {}
    /\ result = first

-----------------------------------------------------------------------------
(* exportToPdf: the size of the page                                       *)

\* sizes of the embedded image: a few small ones, the page limits and the
\* sizes next to them, and the sizes just below the two bounds
MaxPdfWidth == 1064
MaxPdfHeight == 1109
PdfWidths == {1, 306, 612, 613, 800} \cup ((MaxPdfWidth - 11)..MaxPdfWidth)
PdfHeights == {1, 396, 792, 793, 1000} \cup ((MaxPdfHeight - 11)..MaxPdfHeight)

\* part_001 lines 215-216
maxPageWidth == 612
maxPageHeight == 792

\* Math.min of two Numbers
F64Min(a, b) == IF F64Gt(a, b) THEN b ELSE a

\* part_001 lines 218-226
PageSize(w, h) ==
    IF w > maxPageWidth \/ h > maxPageHeight
    THEN LET scale == F64Min(F64DivInt(maxPageWidth, w), F64DivInt(maxPageHeight, h))
         IN  [width  |-> F64Mul(F64FromInt(w), scale),
              height |-> F64Mul(F64FromInt(h), scale)]
    ELSE [width |-> F64FromInt(w), height |-> F64FromInt(h)]

\* part_001 lines 207-210: the image is embedded, its size is read
InitPdf ==
    /\ PipelineAtRest
    /\ HandlerAtRest
    /\ ppc = "embedded"
    /\ imageWidth \in PdfWidths
    /\ imageHeight \in PdfHeights
    /\ pageWidth = FZero
    /\ pageHeight = FZero

\* part_001 lines 215-229
AddPage ==
    /\ ppc = "embedded"
    /\ LET size == PageSize(imageWidth, imageHeight)
       IN  /\ pageWidth' = size.width
           /\ pageHeight' = size.height
    /\ ppc' = "paged"
    /\ UNCHANGED <<imageWidth, imageHeight>>
    /\ UNCHANGED <<pipelineVars, handlerVars>>

NextPdf == AddPage

SpecPdf == InitPdf /\ [][NextPdf]_vars

-----------------------------------------------------------------------------
(* Options outside their documented ranges (SpecRange)                     *)

Clamp(v, lo, hi) == Max(lo, Min(v, hi))

\* the options with every value brought to the nearest documented one
Clamped(opts) ==
    [threshold  |-> Clamp(opts.threshold, 0, MaxThresholdOption),
     blurPasses |-> Clamp(opts.blurPasses, 0, MaxBlurPassesOption),
     thickness  |-> Clamp(opts.thickness, 0, MaxThicknessOption),
     maxDim     |-> opts.maxDim]

\* C17: a conversion called with an option outside its documented range is
\* rejected, or resolves with the result for the nearest documented values.
C17_OutOfRangeClampedOrRejected ==
    Done /\ Clamped(options) # options =>
        result.data = ProcessPixels(source, width, height, Clamped(options))

-----------------------------------------------------------------------------
(* Properties of handleConvert (SpecHandler, SpecHandlerLive)              *)

\* how the last call of the request ended
LastOutcome == outcomes[Len(outcomes)]

RemoteFailed == outcomes # <<>> /\ outcomes[1] = <<"remote", "error">>

\* the request is over and its last call rejected
RequestFailed == hpc = "idle" /\ outcomes # <<>> /\ LastOutcome[2] = "error"

\* C14: once the remote call of a request has failed, fileToLineArt has been
\* called as fallback; when that call resolves, its data URL is the line art
\* shown and the notice is the one alert of the request.
C14_RemoteFailureFallsBack ==
    RemoteFailed =>
        /\ localCalls = 1
        /\ hpc = "fallback" \/ (hpc = "idle" /\ Len(outcomes) = 2)
        /\ Len(outcomes) = 2 /\ outcomes[2] = <<"local", "ok">> =>
              /\ lineArtSrc = DataUrl("local")
              /\ alerts = <<FallbackNotice>>

C14_Witness ==
    /\ RemoteFailed
    /\ Len(outcomes) = 2
    /\ outcomes[2] = <<"local", "ok">>
    /\ lineArtSrc = DataUrl("local")
    /\ lineArtSrc # before

\* a message that tells the user the conversion failed
ReportsFailure(message) == message = "Failed to convert image. Please try again."

\* C15: a request whose last call rejected ends with the failure alert, the
\* line art of before the request and an uncleared drawing; the line art
\* differs from that of before the request only as the data URL of a call
\* that resolved.
C15_FailureKeepsPriorState ==
    /\ RequestFailed =>
          /\ Len(alerts) = 1
          /\ ReportsFailure(alerts[1])
          /\ lineArtSrc = before
          /\ ~cleared
    /\ lineArtSrc # before =>
          /\ outcomes # <<>>
          /\ LastOutcome[2] = "ok"
          /\ lineArtSrc = DataUrl(LastOutcome[1])

C15_Witness ==
    /\ RequestFailed
    /\ outcomes = << <<"remote", "error">>, <<"local", "error">> >>
    /\ before[1] \in {"local", "remote"}
    /\ lineArtSrc = before
    /\ drawing = "drawn"

\* C16: within one request convertWithAPI is called at most once and
\* fileToLineArt at most once.
C16_NoRetries == remoteCalls <= 1 /\ localCalls <= 1

\* C18: a request that has called convertWithAPI comes to an end.
C18_RemoteCallEnds == (hpc = "remote") ~> (hpc = "idle")

\* C19: convertWithAPI is called only by a handler that runs in high-quality
\* mode with apiAvailable true, the probe having settled; in every other
\* case the handler calls fileToLineArt alone.
C19_RemoteOnlyWhenHealthy ==
    /\ remoteCalls > 0 =>
          /\ mode.qualityMode = "hq"
          /\ mode.apiAvailable = "true"
          /\ probe = "settled"
    /\ requests > 0 /\ (mode.qualityMode = "quick" \/ mode.apiAvailable # "true") =>
          /\ remoteCalls = 0
          /\ localCalls >= 1
          /\ hpc # "remote"

C19_Witness ==
    /\ hpc = "local"
    /\ mode.qualityMode = "hq"
    /\ mode.apiAvailable = "null"
    /\ probe = "pending"
    /\ remoteCalls = 0

-----------------------------------------------------------------------------
(* Properties of the page size (SpecPdf)                                   *)

\* the exact product of a Number and a natural number
TimesNat(a, n) == [m |-> BigMul(a.m, BigFromNat(n)), e |-> a.e]

\* equality of the values a.m * 2^a.e and b.m * 2^b.e
SameValue(a, b) ==
    LET e == Min(a.e, b.e)
    IN  BigCmp(BigShl(a.m, a.e - e), BigShl(b.m, b.e - e)) = 0

Paged == ppc = "paged"

TooLarge == imageWidth > maxPageWidth \/ imageHeight > maxPageHeight

\* C20: the page of an image larger than 612 x 792 is at most 612 wide and
\* 792 high, the page has the aspect ratio of the image, and an image within
\* 612 x 792 gets a page of its own size.
C20_PageFitsAndKeepsRatio ==
    Paged =>
        /\ TooLarge => /\ ~F64Gt(pageWidth, F64FromInt(maxPageWidth))
                       /\ ~F64Gt(pageHeight, F64FromInt(maxPageHeight))
        /\ SameValue(TimesNat(pageWidth, imageHeight), TimesNat(pageHeight, imageWidth))
        /\ ~TooLarge => /\ SameValue(pageWidth, F64FromInt(imageWidth))
                        /\ SameValue(pageHeight, F64FromInt(imageHeight))

\* the page of a too large image is wider than 612 or higher than 792
PageOverflows ==
    /\ Paged
    /\ TooLarge
    /\ F64Gt(pageWidth, F64FromInt(maxPageWidth)) \/ F64Gt(pageHeight, F64FromInt(maxPageHeight))

-----------------------------------------------------------------------------
(* Properties of the single passes (SpecStages)                            *)

Abs(n) == IF n < 0 THEN -n ELSE n

\* channel c of the pixel at column x, row y of a buffer w pixels wide
Channel(data, w, x, y, c) == data[(y * w + x) * 4 + c + 1]

InnerPixel(x, y, w, h) == x \in 1..(w - 2) /\ y \in 1..(h - 2)

\* the sum of channel c over the pixel at (x, y) and its eight neighbours
SumOfNine(data, w, x, y, c) ==
    Channel(data, w, x - 1, y - 1, c) + Channel(data, w, x, y - 1, c)
    + Channel(data, w, x + 1, y - 1, c) + Channel(data, w, x - 1, y, c)
    + Channel(data, w, x, y, c) + Channel(data, w, x + 1, y, c)
    + Channel(data, w, x - 1, y + 1, c) + Channel(data, w, x, y + 1, c)
    + Channel(data, w, x + 1, y + 1, c)

\* post is pre after one blur pass: a ninth of a sum of integers is never
\* half way between two integers, so the nearest integer r is the one with
\* 2 * |9 r - sum| < 9
BlurredFrom(pre, post, w, h) ==
    /\ Len(post) = Len(pre)
    /\ \A x \in 0..(w - 1), y \in 0..(h - 1), c \in 0..3 :
          IF c < 3 /\ InnerPixel(x, y, w, h)
          THEN 2 * Abs(9 * Channel(post, w, x, y, c) - SumOfNine(pre, w, x, y, c)) < 9
          ELSE Channel(post, w, x, y, c) = Channel(pre, w, x, y, c)

\* the buffer the blur pass number k (from 1) of this conversion started from
BeforeBlurPass(k) == BlurLoop(grayscale(source), width, height, LoopStart, k - 1)

\* C21: after one boxBlur pass every interior pixel's R, G and B are each the
\* mean, rounded to the nearest integer, of that channel over the nine pixels
\* of its 3x3 neighbourhood in the buffer as it was before the pass; border
\* pixels and every alpha value are unchanged.
C21_BlurPassIsMeanOfNine ==
    (pc = "blur" /\ i >= 1) =>
        BlurredFrom(BeforeBlurPass(i), imageData, width, height)

\* a pass has changed an interior pixel to a mean that is not a whole ninth
C21_Witness ==
    /\ pc = "blur"
    /\ i = 1
    /\ \E x \in 1..(width - 2), y \in 1..(height - 2) :
          /\ SumOfNine(BeforeBlurPass(1), width, x, y, 0) % 9 # 0
          /\ Channel(imageData, width, x, y, 0) # Channel(BeforeBlurPass(1), width, x, y, 0)

\* the red values of the pixel at (x, y) and its eight neighbours
RedsOfNine(data, w, x, y) ==
    {Channel(data, w, x + dx, y + dy, 0) : dx \in {-1, 0, 1}, dy \in {-1, 0, 1}}

\* post is pre after one dilate pass
DilatedFrom(pre, post, w, h) ==
    /\ Len(post) = Len(pre)
    /\ \A x \in 0..(w - 1), y \in 0..(h - 1), c \in 0..3 :
          IF c < 3 /\ InnerPixel(x, y, w, h)
          THEN /\ Channel(post, w, x, y, c) \in RedsOfNine(pre, w, x, y)
               /\ \A red \in RedsOfNine(pre, w, x, y) : Channel(post, w, x, y, c) <= red
          ELSE Channel(post, w, x, y, c) = Channel(pre, w, x, y, c)

\* the binarizer's output of this conversion
BinarizerOutput == thresholdEdges(magnitude, width, height, options.threshold)

\* the buffer the dilate pass number k (from 1) of this conversion started from
BeforeDilatePass(k) == DilateLoop(BinarizerOutput, width, height, LoopStart, k - 1)

\* C22: after one dilate pass every interior pixel's R, G and B all equal the
\* minimum of the red channel over the nine pixels of its 3x3 neighbourhood
\* in the buffer as it was before the pass; border pixels and every alpha
\* value are unchanged.
C22_DilatePassIsMinOfNine ==
    (pc = "dilate" /\ i >= 1) =>
        DilatedFrom(BeforeDilatePass(i), output, width, height)

\* a pass has turned a white interior pixel black
C22_Witness ==
    /\ pc = "dilate"
    /\ i = 1
    /\ \E x \in 1..(width - 2), y \in 1..(height - 2) :
          /\ Channel(BinarizerOutput, width, x, y, 0) = 255
          /\ Channel(output, width, x, y, 0) = 0
          /\ Channel(output, width, x, y, 3) = 255

\* the kernels as C23 gives them, rows from dy = -1 to dy = 1
HorizontalKernel == <<<<-1, 0, 1>>, <<-2, 0, 2>>, <<-1, 0, 1>>>>
VerticalKernel == <<<<-1, -2, -1>>, <<0, 0, 0>>, <<1, 2, 1>>>>

\* the red-channel 3x3 convolution at (x, y)
Convolution(data, w, x, y, kernel) ==
    kernel[1][1] * Channel(data, w, x - 1, y - 1, 0)
    + kernel[1][2] * Channel(data, w, x, y - 1, 0)
    + kernel[1][3] * Channel(data, w, x + 1, y - 1, 0)
    + kernel[2][1] * Channel(data, w, x - 1, y, 0)
    + kernel[2][2] * Channel(data, w, x, y, 0)
    + kernel[2][3] * Channel(data, w, x + 1, y, 0)
    + kernel[3][1] * Channel(data, w, x - 1, y + 1, 0)
    + kernel[3][2] * Channel(data, w, x, y + 1, 0)
    + kernel[3][3] * Channel(data, w, x + 1, y + 1, 0)

\* gx^2 + gy^2 at (x, y)
SquaredGradient(data, w, x, y) ==
    LET gx == Convolution(data, w, x, y, HorizontalKernel)
        gy == Convolution(data, w, x, y, VerticalKernel)
    IN  gx * gx + gy * gy

\* the square of the Number a is exactly the natural number n
SquareIs(a, n) ==
    IF a.m = <<>> THEN n = 0
    ELSE a.e <= 0 /\ BigMul(a.m, a.m) = BigShl(BigFromNat(n), -2 * a.e)

\* the binary32 Number a = M * 2^e is within half a unit in its last place
\* of the square root of n: (2M - 1)^2 <= n * 2^(2 - 2e) <= (2M + 1)^2
NearestToRootOf(a, n) ==
    IF n = 0 THEN a = FZero
    ELSE /\ BigBitLen(a.m) = F32Bits
         /\ a.e <= 0
         /\ LET N    == BigShl(BigFromNat(n), 2 - 2 * a.e)
                MM4  == BigShl(BigMul(a.m, a.m), 2)
                M4   == BigShl(a.m, 2)
            IN  /\ BigCmp(BigAdd(MM4, <<1>>), BigAdd(N, M4)) <= 0
                /\ BigCmp(N, BigAdd(BigAdd(MM4, M4), <<1>>)) <= 0

\* the buffer sobelEdge was given
BeforeSobel == BlurLoop(grayscale(source), width, height, LoopStart, options.blurPasses)

\* C23 as stated: the map has width * height entries, border entries are 0,
\* the square of every interior entry is exactly gx^2 + gy^2, and the input
\* buffer is as it was.
C23_ExactSquaredMagnitude ==
    pc = "edges" =>
        /\ Len(magnitude) = width * height
        /\ imageData = BeforeSobel
        /\ \A x \in 0..(width - 1), y \in 0..(height - 1) :
              IF InnerPixel(x, y, width, height)
              THEN SquareIs(magnitude[y * width + x + 1],
                            SquaredGradient(imageData, width, x, y))
              ELSE magnitude[y * width + x + 1] = FZero

\* C23 (amended): the map has width * height entries, border entries are 0,
\* every interior entry is the square root of gx^2 + gy^2 rounded to a
\* binary32 number (within half a unit in the last place), and the input
\* buffer is as it was.
C23_RoundedRootOfSquaredGradient ==
    pc = "edges" =>
        /\ Len(magnitude) = width * height
        /\ imageData = BeforeSobel
        /\ \A x \in 0..(width - 1), y \in 0..(height - 1) :
              IF InnerPixel(x, y, width, height)
              THEN NearestToRootOf(magnitude[y * width + x + 1],
                                   SquaredGradient(imageData, width, x, y))
              ELSE magnitude[y * width + x + 1] = FZero

\* an interior pixel whose gradient has both components and whose squared
\* gradient is not the square of its magnitude
C23_Witness ==
    /\ pc = "edges"
    /\ \E x \in 1..(width - 2), y \in 1..(height - 2) :
          /\ Convolution(imageData, width, x, y, HorizontalKernel) # 0
          /\ Convolution(imageData, width, x, y, VerticalKernel) # 0
          /\ ~SquareIs(magnitude[y * width + x + 1],
                       SquaredGradient(imageData, width, x, y))

-----------------------------------------------------------------------------
(* Properties of grayscale (SpecGray)                                      *)

\* v is an integer of 0..255 nearest to 0.299 r + 0.587 g + 0.114 b
RoundedLuma(v, r, g, b) ==
    /\ v \in 0..255
    /\ Abs(1000 * v - (299 * r + 587 * g + 114 * b)) <= 500

\* C24: after grayscale every pixel has R = G = B = the luma
\* 0.299 R + 0.587 G + 0.114 B of its original channels rounded to a nearest
\* integer of 0..255, and its alpha unchanged; buffers of one pixel included.
C24_GrayIsRoundedLuma ==
    (pc = "blur" /\ i = 0) =>
        /\ Len(imageData) = Len(source)
        /\ \A p \in Pixels(source) :
              /\ At(imageData, 4 * p + 1) = At(imageData, 4 * p)
              /\ At(imageData, 4 * p + 2) = At(imageData, 4 * p)
              /\ At(imageData, 4 * p + 3) = At(source, 4 * p + 3)
              /\ RoundedLuma(At(imageData, 4 * p), At(source, 4 * p),
                             At(source, 4 * p + 1), At(source, 4 * p + 2))

\* a 1x1 image of a colour that is no gray, with a luma that is no integer,
\* has been converted and kept its alpha
C24_Witness ==
    /\ pc = "blur"
    /\ i = 0
    /\ width = 1
    /\ height = 1
    /\ At(source, 0) # At(source, 1)
    /\ (299 * At(source, 0) + 587 * At(source, 1) + 114 * At(source, 2)) % 1000 = 500
    /\ At(imageData, 0) = At(imageData, 2)
    /\ At(source, 3) = 128
    /\ At(imageData, 3) = 128

-----------------------------------------------------------------------------
(* Properties of the binarizer (SpecThreshold)                             *)

\* the maximum of the map, 0 for a map of zeros or an empty map
MaximumOf(mag) ==
    IF \A k \in 1..Len(mag) : mag[k].m = <<>> THEN FZero
    ELSE CHOOSE m \in {mag[k] : k \in 1..Len(mag)} :
            \A k \in 1..Len(mag) : ~F64Gt(mag[k], m)

\* a * p > b * q in exact arithmetic, for Numbers a, b >= 0 and naturals p, q
ExceedsExactly(a, p, b, q) ==
    LET e == Min(a.e, b.e)
    IN  BigCmp(BigShl(BigMulSmall(a.m, p), a.e - e),
               BigShl(BigMulSmall(b.m, q), b.e - e)) > 0

\* C25: with maxMagnitude the maximum of the map, pixel k of the binarizer's
\* output is black exactly when magnitude[k] * 255 > threshold *
\* maxMagnitude, and white otherwise.
C25_BlackExactlyAboveCutoff ==
    Binarized =>
        \A maxMagnitude \in {MaximumOf(magnitude)} :
            \A p \in Pixels(output) :
                PixelAt(output, p) =
                    (IF ExceedsExactly(magnitude[p + 1], 255,
                                       maxMagnitude, options.threshold)
                     THEN Black ELSE White)

-----------------------------------------------------------------------------
(* Properties of the dilation loop (SpecStages)                            *)

IsBlack(data, w, x, y) == PixelAt(data, y * w + x) = Black

\* some pixel of the w x h buffer within Chebyshev distance k of (x, y) is black
BlackWithin(data, w, h, x, y, k) ==
    \E bx \in 0..(w - 1), by \in 0..(h - 1) :
        /\ Abs(bx - x) <= k
        /\ Abs(by - y) <= k
        /\ IsBlack(data, w, bx, by)

\* C27: after k dilate passes applied to the binarizer's output an interior
\* pixel is black if and only if some pixel that was black in the binarizer's
\* output lies within Chebyshev distance k of it.
C27_DilationGrowsByChebyshevDistance ==
    pc = "dilate" =>
        \A binary \in {BinarizerOutput} :
            \A x \in 1..(width - 2), y \in 1..(height - 2) :
                IsBlack(output, width, x, y)
                    <=> BlackWithin(binary, width, height, x, y, i)

\* after two passes an interior pixel is black that is two columns and one
\* row away from the only black pixels of the binarizer's output near it
C27_Witness ==
    /\ pc = "dilate"
    /\ i = 2
    /\ \E x \in 1..(width - 2), y \in 1..(height - 2) :
          /\ IsBlack(output, width, x, y)
          /\ ~BlackWithin(BinarizerOutput, width, height, x, y, 1)
          /\ \E bx \in {x - 2, x + 2}, by \in {y - 1, y + 1} :
                /\ bx \in 0..(width - 1)
                /\ by \in 0..(height - 1)
                /\ IsBlack(BinarizerOutput, width, bx, by)

-----------------------------------------------------------------------------
(* The border of the output (SpecStages)                                   *)

OnBorder(x, y, w, h) == x = 0 \/ y = 0 \/ x = w - 1 \/ y = h - 1

\* every pixel of the outermost ring of the w x h buffer is white
WhiteBorder(data, w, h) ==
    \A x \in 0..(w - 1), y \in 0..(h - 1) :
        OnBorder(x, y, w, h) => PixelAt(data, y * w + x) = White

\* C28: for a threshold >= 0 every pixel of the outermost ring of the output
\* is white after the binarizer, after every dilate pass and in the final
\* result; an image with width < 3 or height < 3 converts to an all-white
\* image.
C28_BorderStaysWhite ==
    /\ (pc = "dilate" /\ options.threshold >= 0) =>
          WhiteBorder(output, width, height)
    /\ (pc = "done" /\ options.threshold >= 0) =>
          /\ WhiteBorder(result.data, result.width, result.height)
          /\ (width < 3 \/ height < 3) =>
                WhitePixels(result.data) = Pixels(result.data)

\* a finished conversion at threshold 0 with black pixels next to the border
\* after the dilate passes
C28_Witness ==
    /\ pc = "done"
    /\ options.threshold = 0
    /\ i >= 1
    /\ width >= 3
    /\ height >= 3
    /\ IsBlack(result.data, width, 1, 1)
    /\ WhiteBorder(result.data, width, height)

-----------------------------------------------------------------------------
(* Array bounds (SpecStages)                                               *)

\* C29: for width >= 1 and height >= 1 every index read or written by
\* grayscale, boxBlur, sobelEdge, thresholdEdges and dilate lies inside its
\* buffer (0 <= index < width * height * 4 for the pixel buffers,
\* 0 <= index < width * height for the magnitude map), and every buffer
\* keeps the length width * height * 4 through all stages.
C29_IndicesInsideBuffers ==
    (width >= 1 /\ height >= 1) =>
        /\ grayscaleIndices(width * height * 4) \subseteq 0..(width * height * 4 - 1)
        /\ boxBlurIndices(width, height) \subseteq 0..(width * height * 4 - 1)
        /\ sobelEdgeIndices(width, height) \subseteq 0..(width * height * 4 - 1)
        /\ thresholdEdgesIndices(width, height) \subseteq 0..(width * height * 4 - 1)
        /\ dilateIndices(width, height) \subseteq 0..(width * height * 4 - 1)
        /\ sobelEdgeMagnitudeIndices(width, height) \subseteq 0..(width * height - 1)
        /\ thresholdEdgesMagnitudeIndices(width, height) \subseteq 0..(width * height - 1)
        /\ pc \in {"loaded", "blur", "edges", "dilate", "done"} =>
              Len(imageData) = width * height * 4
        /\ pc \in {"edges", "dilate", "done"} =>
              Len(magnitude) = width * height
        /\ pc \in {"dilate", "done"} =>
              Len(output) = width * height * 4
        /\ pc = "done" =>
              Len(result.data) = width * height * 4

\* every stage has run on a canvas with interior pixels, the blur and the
\* dilation more than zero times, and the last pixel of the last row was
\* read by a window
C29_Witness ==
    /\ pc = "done"
    /\ width = 5
    /\ height = 4
    /\ options.blurPasses >= 1
    /\ i >= 1
    /\ width * height * 4 - 4 \in dilateIndices(width, height)
    /\ Len(result.data) = width * height * 4

-----------------------------------------------------------------------------
(* The order of the pixels within a pass (SpecPass)                        *)

\* live holds the values of after at the channels 0..2 of the pixels written
\* so far and the values of the copy everywhere else
WrittenSoFar(live, copy, after, w, written) ==
    /\ Len(live) = Len(copy)
    /\ \A k \in 1..Len(live) :
          live[k] = (IF <<((k - 1) \div 4) % w, ((k - 1) \div 4) \div w>> \in written
                     THEN after[k] ELSE copy[k])

\* C26: within one boxBlur pass and within one dilate pass, whatever the
\* order in which the interior pixels are processed, every pixel written so
\* far holds the value computed from the copy taken before the pass and every
\* other pixel its value of before the pass; when all are written the buffer
\* is the result of the pass in row order.
C26_PassIndependentOfOrder ==
    /\ pc = "blurring" =>
          \A after \in {boxBlur(snapshot, width, height)} :
              WrittenSoFar(imageData, snapshot, after, width, visited)
    /\ pc = "dilating" =>
          \A after \in {dilate(snapshot, width, height)} :
              WrittenSoFar(output, snapshot, after, width, visited)

\* a pixel is being written after a neighbour of it was changed in the same
\* pass, in an order that is not the row order
C26_Witness ==
    /\ pc \in {"blurring", "dilating"}
    /\ <<2, 2>> \in visited
    /\ <<1, 1>> \notin visited
    /\ <<2, 1>> \in visited
    /\ (IF pc = "blurring" THEN imageData ELSE output) # snapshot

-----------------------------------------------------------------------------
(* isConverting (SpecHandlerLive)                                          *)

\* C30: isConverting is true as long as a handleConvert call is under way
\* and false once it has finished; provided the remote call, like the local
\* ones, eventually resolves or rejects, isConverting is eventually reset to
\* false on every path.
C30_IsConvertingReset ==
    /\ [](hpc # "idle" => isConverting)
    /\ [](hpc = "idle" => ~isConverting)
    /\ ((hpc = "remote") ~> (hpc # "remote")) => (isConverting ~> ~isConverting)

\* a request has gone through the remote failure and the failure of the
\* fallback, and isConverting is false again
C30_Witness ==
    /\ hpc = "idle"
    /\ requests >= 1
    /\ outcomes = <<<<"remote", "error">>, <<"local", "error">>>>
    /\ ~isConverting

====
